---- MODULE Spec2Model ----
(***************************************************************************)
(* Model of the chat-completion gateway of src/main.rs.                    *)
(*                                                                         *)
(* Each POST /answer whose JSON body deserialized is one request slot.     *)
(* answer_handler runs get_response synchronously up to its only           *)
(* suspension point, `timeout(duration, task).await`; there the outbound   *)
(* call races the timer.  tokio's timeout is modelled by its contract: the *)
(* call's value is returned if the call completes before the duration has  *)
(* elapsed, otherwise Elapsed is returned and the call is dropped.  When   *)
(* both have happened by the time the task is polled, the call's value is  *)
(* looked at first.                                                        *)
(***************************************************************************)
EXTENDS Integers, Sequences, FiniteSets, TLC

(* ---------------------------- bounds ----------------------------------- *)
NumRequests == 2        \* request slots handled concurrently
MaxMessages == 2        \* longest messages list of a request
MaxTimeout == 2         \* largest caller-supplied timeout, in seconds

(* ------------------------ program constants ---------------------------- *)
DEFAULT_TIMEOUT == 120
HTTP_OK == 200

(* ------------------------------ values --------------------------------- *)
\* Option<T>: None is the empty sequence, Some(x) the one-element sequence.
None == << >>
Some(x) == << x >>

ReqIds == 1 .. NumRequests

Roles == {"system", "user", "assistant", "function"}
Contents == {"hello", ""}
ApiKeys == {"sk-alice", "sk-bob"}
Models == {"gpt-3.5-turbo", "gpt-4"}
MaxTokensValues == {10, 65535}          \* u16
Temperatures == {0, 1}                  \* f32, passed through untouched
Timeouts == {None} \cup {Some(t) : t \in 0 .. MaxTimeout}

\* struct ChatMessage: every role, and for the user both contents
ChatMessage ==
    {m \in [role : Roles, content : Contents] : m.content = "" => m.role = "user"}

SeqsUpTo(S, n) == UNION {[1 .. k -> S] : k \in 0 .. n}

\* struct OpenAiRequest, over the given field values
OpenAiRequest(keys, models, tokens, temps, timeouts, msgs) ==
    [api_key : keys, model : models, max_tokens : tokens,
     temperature : temps, timeout : timeouts, messages : msgs]

\* the bodies one request alone is fed with
AllRequests ==
    OpenAiRequest(ApiKeys, Models, MaxTokensValues, Temperatures, Timeouts,
                  SeqsUpTo(ChatMessage, MaxMessages))

\* the bodies concurrent requests are fed with: every key, a timeout of 0
\* or 1 second, a single user message or none
FewRequests ==
    OpenAiRequest(ApiKeys, {"gpt-3.5-turbo"}, {10}, {0}, {Some(0), Some(1)},
                  SeqsUpTo([role : {"user"}, content : {"hello"}], 1))

\* the bodies fed when progress is checked: one key, a timeout of 0 or 1
\* second, a single user message or none
LiveRequests == {req \in FewRequests : req.api_key = "sk-alice"}

\* what the upstream provider may answer to a call that reaches it
Completions == {"completion-A", "completion-B"}

\* OpenAIError values client.chat().create() may end with
UpstreamErrors ==
    {[kind |-> "Reqwest", detail |-> "connection refused"],
     [kind |-> "ApiError", detail |-> "invalid_api_key: Incorrect API key provided"]}

\* Result<T, E>
Ok(v) == [ok |-> TRUE, value |-> v]
Err(e) == [ok |-> FALSE, value |-> e]

UpstreamOutcomes == {Ok(c) : c \in Completions} \cup {Err(e) : e \in UpstreamErrors}

\* the outcomes concurrent requests are fed with
FewOutcomes ==
    {Ok("completion-A"), Err([kind |-> "Reqwest", detail |-> "connection refused"])}

\* the instants at which a request's clock is observed
Instants == (0 .. MaxTimeout + 1)
            \cup {DEFAULT_TIMEOUT - 1, DEFAULT_TIMEOUT, DEFAULT_TIMEOUT + 1}

(* ------------------------------ state ---------------------------------- *)
VARIABLES
    pc,         \* per request: "idle", "awaiting" (suspended in timeout), "responded"
    request,    \* per request: the deserialized body as it arrived, None before
    duration,   \* per request: seconds given to timeout(), -1 before resolution
    elapsed,    \* per request: seconds since timeout() started
    built,      \* per request: whether build() succeeded, None while not reached
    call,       \* per request: the create() future: "none", "inflight", "done", "dropped"
    result,     \* per request: what a completed create() future holds
    net,        \* per request: the provider's side: "none", "pending", "answered"
    outbound,   \* every call issued to the provider, in order
    reply,      \* per request: the HTTP reply given, None before
    replies,    \* per request: number of HTTP replies given
    log         \* lines written to the process log

vars == << pc, request, duration, elapsed, built, call, result, net, outbound,
           reply, replies, log >>

(* ------------------------- get_response -------------------------------- *)
\* a zero timeout taken for an absent one
req_timeout_zero_as_absent(req) ==
    IF req.timeout # None /\ req.timeout[1] > 0 THEN req.timeout[1] ELSE DEFAULT_TIMEOUT

\* lines 43-47: the Duration handed to timeout()
req_timeout(req) ==
    IF req.timeout # None THEN req.timeout[1] ELSE DEFAULT_TIMEOUT

\* the emptiness check left out
is_empty_unchecked(msgs) == FALSE

\* line 53: request.messages.is_empty()
is_empty(msgs) == Len(msgs) = 0

\* one client configuration kept for all requests
client_api_key_shared(req) ==
    IF outbound = << >> THEN req.api_key ELSE outbound[1].bearer

\* lines 49-51: the credential of the client built for this request
client_api_key(req) == req.api_key

\* lines 57-65: one upstream message per incoming message
converted_message(m) ==
    [role |-> m.role, content |-> Some(m.content),
     name |-> None, function_call |-> None]

\* the messages collected in reverse
converted_messages_reversed(msgs) ==
    [i \in 1 .. Len(msgs) |-> converted_message(msgs[Len(msgs) + 1 - i])]

converted_messages(msgs) ==
    [i \in 1 .. Len(msgs) |-> converted_message(msgs[i])]

\* lines 67-72: CreateChatCompletionRequestArgs ... .build()
build_request(req) ==
    [max_tokens |-> req.max_tokens,
     model |-> req.model,
     temperature |-> req.temperature,
     messages |-> converted_messages(req.messages)]

\* line 54: the error of an empty messages list
EmptyMessagesError == [kind |-> "Message", detail |-> "No response from GPT-3.5 Turbo"]

\* line 72: the error `?` forwards when build() fails
BuildError == [kind |-> "InvalidArgument", detail |-> "messages must be initialized"]

\* line 77: the error `?` forwards when the timer wins
Elapsed == [kind |-> "Elapsed", detail |-> ""]

\* Display of the boxed errors (e.to_string(), line 102)
to_string(e) ==
    CASE e.kind = "Message" -> e.detail
      [] e.kind = "Elapsed" -> "deadline has elapsed"
      [] e.kind = "Reqwest" -> "http error: " \o e.detail
      [] e.kind = "InvalidArgument" -> "invalid args: " \o e.detail
      [] e.kind = "ApiError" -> e.detail
      [] OTHER -> "error"

\* the timer looked at before the call's result
timeout_poll_timer_first(r) ==
    IF elapsed[r] >= duration[r] THEN Some(Err(Elapsed))
    ELSE IF call[r] = "done" THEN Some(Ok(result[r][1]))
    ELSE None

\* the call awaited without a timer
timeout_poll_untimed(r) ==
    IF call[r] = "done" THEN Some(Ok(result[r][1])) ELSE None

\* line 77: timeout(duration, task) when the task is polled.  The call's
\* result is looked at first, then the timer; None while both are pending.
timeout_poll(r) ==
    IF call[r] = "done" THEN Some(Ok(result[r][1]))
    ELSE IF elapsed[r] >= duration[r] THEN Some(Err(Elapsed))
    ELSE None

\* a timeout reported with the message of line 54
get_response_tail_no_response(t) ==
    IF ~t.ok THEN Err(EmptyMessagesError)
    ELSE IF t.value.ok THEN Ok(t.value.value) ELSE Err(t.value.value)

\* lines 77-84: `?` forwards Elapsed, the match forwards the call's result
get_response_tail(t) ==
    IF ~t.ok THEN Err(t.value)
    ELSE IF t.value.ok THEN Ok(t.value.value) ELSE Err(t.value.value)

(* ------------------------- answer_handler ------------------------------ *)
ApiResponse(s, a, e) == [success |-> s, openai_answer |-> a, error |-> e]

\* the failure arm leaving the error unset
api_response_error_unset(res) ==
    IF res.ok
    THEN ApiResponse(TRUE, Some(res.value), None)
    ELSE ApiResponse(FALSE, None, None)

\* lines 95-104
api_response(res) ==
    IF res.ok
    THEN ApiResponse(TRUE, Some(res.value), None)
    ELSE ApiResponse(FALSE, None, Some(to_string(res.value)))

\* a failure of get_response turned into a rejection
handler_reply_rejecting(res) ==
    IF res.ok
    THEN [rejected |-> FALSE, status |-> HTTP_OK, body |-> api_response(res)]
    ELSE [rejected |-> TRUE, status |-> 500, body |-> api_response(res)]

\* line 106: Ok(warp::reply::json(&response))
handler_reply(res) ==
    [rejected |-> FALSE, status |-> HTTP_OK, body |-> api_response(res)]

\* lines 94-107: nothing of the request is logged
handler_log(req) == << >>

(* ------------------------------ Init ----------------------------------- *)
Init ==
    /\ pc = [r \in ReqIds |-> "idle"]
    /\ request = [r \in ReqIds |-> None]
    /\ built = [r \in ReqIds |-> None]
    /\ duration = [r \in ReqIds |-> -1]
    /\ elapsed = [r \in ReqIds |-> 0]
    /\ call = [r \in ReqIds |-> "none"]
    /\ result = [r \in ReqIds |-> None]
    /\ net = [r \in ReqIds |-> "none"]
    /\ outbound = << >>
    /\ reply = [r \in ReqIds |-> None]
    /\ replies = [r \in ReqIds |-> 0]
    /\ log = << >>

(* ----------------------------- actions --------------------------------- *)
\* the handler returns: the reply is given to the HTTP layer
Respond(r, res) ==
    /\ pc' = [pc EXCEPT ![r] = "responded"]
    /\ reply' = [reply EXCEPT ![r] = Some(handler_reply(res))]
    /\ replies' = [replies EXCEPT ![r] = @ + 1]

\* POST /answer with body req: answer_handler runs get_response up to its
\* first suspension.  builds says whether build() (line 72) succeeds.
Handle(r, req, builds) ==
    /\ request' = [request EXCEPT ![r] = Some(req)]
    /\ duration' = [duration EXCEPT ![r] = req_timeout(req)]
    /\ log' = log \o handler_log(req)
    /\ IF is_empty(req.messages)
       THEN /\ Respond(r, Err(EmptyMessagesError))
            /\ UNCHANGED << built, call, net, outbound >>
       ELSE IF ~builds
       THEN /\ Respond(r, Err(BuildError))
            /\ built' = [built EXCEPT ![r] = Some(FALSE)]
            /\ UNCHANGED << call, net, outbound >>
       ELSE /\ built' = [built EXCEPT ![r] = Some(TRUE)]
            /\ outbound' = Append(outbound,
                                  [req |-> r, bearer |-> client_api_key(req),
                                   body |-> build_request(req)])
            /\ call' = [call EXCEPT ![r] = "inflight"]
            /\ net' = [net EXCEPT ![r] = "pending"]
            /\ pc' = [pc EXCEPT ![r] = "awaiting"]
            /\ UNCHANGED << reply, replies >>
    /\ UNCHANGED << elapsed, result >>

Receive(r, bodies) ==
    /\ pc[r] = "idle"
    /\ \E req \in bodies, builds \in BOOLEAN : Handle(r, req, builds)

\* the first instant observed after t
NextInstant(t) == CHOOSE u \in Instants : u > t /\ \A v \in Instants : v > t => u <= v

\* time passes for a suspended request; the clock is followed up to the
\* first instant after the deadline
Tick(r) ==
    /\ pc[r] = "awaiting"
    /\ elapsed[r] <= duration[r]
    /\ elapsed' = [elapsed EXCEPT ![r] = NextInstant(elapsed[r])]
    /\ UNCHANGED << pc, request, duration, built, call, result, net, outbound,
                    reply, replies, log >>

\* the provider's answer (or the transport's failure) arrives before the
\* deadline: the create() future completes
CallCompletes(r, out) ==
    /\ pc[r] = "awaiting"
    /\ call[r] = "inflight"
    /\ net[r] = "pending"
    /\ elapsed[r] < duration[r]
    /\ call' = [call EXCEPT ![r] = "done"]
    /\ result' = [result EXCEPT ![r] = Some(out)]
    /\ net' = [net EXCEPT ![r] = "answered"]
    /\ UNCHANGED << pc, request, duration, elapsed, built, outbound, reply,
                    replies, log >>

\* a failed call issued once more instead of being reported
Resume_retrying(r) ==
    /\ pc[r] = "awaiting"
    /\ timeout_poll(r) # None
    /\ IF get_response_tail(timeout_poll(r)[1]).ok \/ Len(outbound) >= 2 * NumRequests
       THEN /\ Respond(r, get_response_tail(timeout_poll(r)[1]))
            /\ call' = [call EXCEPT ![r] = IF @ = "inflight" THEN "dropped" ELSE @]
            /\ UNCHANGED << elapsed, result, net, outbound >>
       ELSE /\ outbound' = Append(outbound, outbound[CHOOSE i \in DOMAIN outbound :
                                                         outbound[i].req = r])
            /\ call' = [call EXCEPT ![r] = "inflight"]
            /\ net' = [net EXCEPT ![r] = "pending"]
            /\ result' = [result EXCEPT ![r] = None]
            /\ elapsed' = [elapsed EXCEPT ![r] = 0]
            /\ UNCHANGED << pc, reply, replies >>
    /\ UNCHANGED << request, duration, built, log >>

\* the task is polled again and timeout() resolves: the rest of
\* get_response and answer_handler run; a call still in flight is dropped
Resume(r) ==
    /\ pc[r] = "awaiting"
    /\ timeout_poll(r) # None
    /\ Respond(r, get_response_tail(timeout_poll(r)[1]))
    /\ call' = [call EXCEPT ![r] = IF @ = "inflight" THEN "dropped" ELSE @]
    /\ UNCHANGED << request, duration, elapsed, built, result, net, outbound, log >>

\* the provider answers a call whose future was dropped: nobody listens
LateAnswer(r) ==
    /\ call[r] = "dropped"
    /\ net[r] = "pending"
    /\ net' = [net EXCEPT ![r] = "answered"]
    /\ UNCHANGED << pc, request, duration, elapsed, built, call, result,
                    outbound, reply, replies, log >>

(* -------------------------- specifications ----------------------------- *)
\* one request, every body
Next ==
    \/ Receive(1, AllRequests)
    \/ Tick(1)
    \/ \E out \in UpstreamOutcomes : CallCompletes(1, out)
    \/ Resume(1)
    \/ LateAnswer(1)

Spec == Init /\ [][Next]_vars

\* concurrent requests, few bodies
NextConc ==
    \/ \E r \in ReqIds : Receive(r, FewRequests)
    \/ \E r \in ReqIds : Tick(r)
    \/ \E r \in ReqIds, out \in FewOutcomes : CallCompletes(r, out)
    \/ \E r \in ReqIds : Resume(r)
    \/ \E r \in ReqIds : LateAnswer(r)

SpecConc == Init /\ [][NextConc]_vars

\* concurrent requests; the clock advances and the runtime polls a woken
\* task
NextLive ==
    \/ \E r \in ReqIds : Receive(r, LiveRequests)
    \/ \E r \in ReqIds : Tick(r)
    \/ \E r \in ReqIds, out \in FewOutcomes : CallCompletes(r, out)
    \/ \E r \in ReqIds : Resume(r)
    \/ \E r \in ReqIds : LateAnswer(r)

SpecLive ==
    /\ Init /\ [][NextLive]_vars
    /\ \A r \in ReqIds : WF_vars(Tick(r)) /\ WF_vars(Resume(r))

TypeOK ==
    /\ pc \in [ReqIds -> {"idle", "awaiting", "responded"}]
    /\ call \in [ReqIds -> {"none", "inflight", "done", "dropped"}]
    /\ net \in [ReqIds -> {"none", "pending", "answered"}]
    /\ \A r \in ReqIds : elapsed[r] \in Instants /\ replies[r] \in 0 .. 1

(* ------------------------------ claims --------------------------------- *)
Arrived(r) == request[r] # None
Req(r) == request[r][1]
Replied(r) == pc[r] = "responded"
Envelope(r) == reply[r][1].body
CallsOf(r) == {i \in DOMAIN outbound : outbound[i].req = r}
TimeoutText == "deadline has elapsed"
IsFailure(env) ==
    env.success = FALSE /\ env.openai_answer = None
    /\ env.error # None /\ env.error[1] # ""

\* C1: a request whose messages list is empty causes no outbound call and
\* is answered success=false, openai_answer=null and a non-empty error,
\* whatever its other fields are.
C1_EmptyMessagesNoCall ==
    \A r \in ReqIds :
        (Arrived(r) /\ Len(Req(r).messages) = 0) =>
            /\ CallsOf(r) = {}
            /\ net[r] = "none"
            /\ Replied(r)
            /\ IsFailure(Envelope(r))

C1_Witness ==
    \E r \in ReqIds :
        /\ Arrived(r) /\ Req(r).messages = << >> /\ Replied(r)
        /\ Req(r).timeout = Some(0) /\ Req(r).api_key = "sk-bob"
        /\ Req(r).model = "gpt-4" /\ Req(r).max_tokens = 65535

\* C2: a request with a non-empty messages list whose upstream request
\* builds causes exactly one outbound call over its whole handling: not
\* zero, and no second one after an upstream failure or a timeout.
C2_ExactlyOneCall ==
    \A r \in ReqIds :
        (Arrived(r) /\ Len(Req(r).messages) > 0 /\ built[r] # Some(FALSE)) =>
            Cardinality(CallsOf(r)) = 1

C2_Witness ==
    \E r \in ReqIds :
        /\ Replied(r) /\ Cardinality(CallsOf(r)) = 1
        /\ result[r] # None /\ ~result[r][1].ok

\* C3: when the outbound call was issued and did not complete within the
\* resolved timeout, the call is dropped and the envelope is a failure
\* whose error is the timeout text; no other failure carries that text.
C3_TimeoutEnvelope ==
    \A r \in ReqIds :
        Replied(r) =>
            /\ (CallsOf(r) # {} /\ result[r] = None) =>
                   /\ call[r] = "dropped"
                   /\ IsFailure(Envelope(r))
                   /\ Envelope(r).error = Some(TimeoutText)
            /\ Envelope(r).error = Some(TimeoutText) =>
                   /\ call[r] = "dropped"
                   /\ result[r] = None
                   /\ Len(Req(r).messages) > 0

C3_Witness ==
    \E r \in ReqIds :
        /\ Replied(r) /\ call[r] = "dropped" /\ net[r] = "pending"
        /\ Req(r).timeout = Some(1) /\ elapsed[r] = 1

\* C4: the deadline of the outbound call is the request's timeout in
\* seconds when it is present (0 included) and 120 seconds when it is
\* omitted; the timer never wins before that many seconds.
C4_Deadline ==
    \A r \in ReqIds :
        Arrived(r) =>
            LET bound == IF Req(r).timeout = None THEN 120 ELSE Req(r).timeout[1]
            IN /\ duration[r] = bound
               /\ call[r] = "dropped" => elapsed[r] >= bound
               /\ (pc[r] = "awaiting" /\ elapsed[r] < bound) => reply[r] = None

C4_Witness ==
    \E r \in ReqIds :
        /\ Arrived(r) /\ Req(r).timeout = None
        /\ call[r] = "dropped" /\ elapsed[r] = 120

\* C5: every envelope has exactly one of openai_answer and error, selected
\* by success.
C5_ExactlyOneOf ==
    \A r \in ReqIds :
        reply[r] # None =>
            LET env == Envelope(r)
            IN /\ env.success \in BOOLEAN
               /\ env.success => (env.openai_answer # None /\ env.error = None)
               /\ ~env.success => (env.openai_answer = None /\ env.error # None)

C5_Witness ==
    \E r \in ReqIds :
        /\ Replied(r) /\ ~Envelope(r).success
        /\ result[r] # None /\ result[r][1].value.kind = "ApiError"

\* C6: every failure of the gateway - empty messages, build failure,
\* upstream error, timeout - is answered with HTTP 200 and the failure
\* envelope; the handler never rejects.
C6_FailuresAreEnvelopes ==
    \A r \in ReqIds :
        Replied(r) =>
            /\ reply[r][1].rejected = FALSE
            /\ reply[r][1].status = 200
            /\ (\/ Len(Req(r).messages) = 0
                \/ built[r] = Some(FALSE)
                \/ call[r] = "dropped"
                \/ (result[r] # None /\ ~result[r][1].ok))
               => IsFailure(Envelope(r))

C6_Witness ==
    \E r \in ReqIds :
        /\ Replied(r) /\ built[r] = Some(FALSE)
        /\ reply[r][1].status = 200 /\ ~Envelope(r).success

\* C7: the messages sent upstream are the incoming ones translated one by
\* one in order, name and function_call unset, and model, max_tokens and
\* temperature are those of the request.
C7_Translation ==
    \A i \in DOMAIN outbound :
        LET up == outbound[i].body
            req == Req(outbound[i].req)
        IN /\ Len(up.messages) = Len(req.messages)
           /\ \A k \in 1 .. Len(req.messages) :
                  /\ up.messages[k].role = req.messages[k].role
                  /\ up.messages[k].content = << req.messages[k].content >>
                  /\ up.messages[k].name = << >>
                  /\ up.messages[k].function_call = << >>
           /\ up.model = req.model
           /\ up.max_tokens = req.max_tokens
           /\ up.temperature = req.temperature

C7_Witness ==
    \E i \in DOMAIN outbound :
        /\ Len(outbound[i].body.messages) = 2
        /\ outbound[i].body.messages[1].role = "system"
        /\ outbound[i].body.messages[2].role = "user"
        /\ outbound[i].body.messages[2].content = Some("")
        /\ outbound[i].body.model = "gpt-4"

\* C8: the API key of a request is the credential of that request's own
\* outbound call only: no call of another request carries it in its place,
\* and no log line is written.
C8_KeyIsolation ==
    /\ \A i \in DOMAIN outbound :
           outbound[i].bearer = Req(outbound[i].req).api_key
    /\ \A r \in ReqIds : Cardinality(CallsOf(r)) <= 1
    /\ log = << >>

C8_Witness ==
    \E i, j \in DOMAIN outbound :
        /\ outbound[i].req # outbound[j].req
        /\ outbound[i].bearer = "sk-alice" /\ outbound[j].bearer = "sk-bob"
        /\ Replied(outbound[i].req) /\ pc[outbound[j].req] = "awaiting"

\* C9: a call that completed before the deadline decides the envelope
\* (the upstream response, or the upstream error, never the timeout text)
\* even if the task is polled after the deadline; once the reply is given,
\* nothing that arrives later changes it.
C9_RaceOutcome ==
    /\ [](\A r \in ReqIds :
              (Replied(r) /\ result[r] # None) =>
                  LET out == result[r][1]
                  IN IF out.ok
                     THEN Envelope(r) = [success |-> TRUE,
                                         openai_answer |-> << out.value >>,
                                         error |-> << >>]
                     ELSE /\ IsFailure(Envelope(r))
                          /\ Envelope(r).error # Some(TimeoutText))
    /\ [][\A r \in ReqIds :
              Replied(r) => (reply'[r] = reply[r] /\ pc'[r] = "responded")]_vars

C9_Witness ==
    \E r \in ReqIds :
        /\ Replied(r) /\ result[r] # None /\ result[r][1].ok
        /\ elapsed[r] >= duration[r]
        /\ Envelope(r).success

\* C10: under fair scheduling of the clock and of the request's task, a
\* request suspended on its outbound call is eventually answered, even if
\* the provider never answers, and no request is answered twice.
C10_EventuallyAnswered ==
    /\ \A r \in ReqIds :
           [](pc[r] = "awaiting" => <>(pc[r] = "responded" /\ replies[r] = 1))
    /\ [](\A r \in ReqIds : replies[r] <= 1 /\ (Arrived(r) => pc[r] # "idle"))

C10_Witness ==
    \E r \in ReqIds :
        /\ Replied(r) /\ replies[r] = 1
        /\ net[r] = "pending" /\ call[r] = "dropped"
        /\ elapsed[r] > duration[r]
====
